---- MODULE Spec2Model ----
(***************************************************************************)
(* A model of sample_grabber.c: the capture session of the Piksi sample    *)
(* grabber.  Three threads of control share the process state:             *)
(*   - the main thread, which sits in ftdi_readstream() and runs           *)
(*     readCallback() once per delivered raw block, then tears down;       *)
(*   - the file_writer thread, which pops slices from the pipe and         *)
(*     fwrite()s them to the output file;                                  *)
(*   - the SIGINT handler.                                                 *)
(* exitRequested is a plain int shared by all three.  The writer re-reads  *)
(* it once per loop iteration, after a call into the pipe library (which   *)
(* locks a mutex), so each read is modelled as seeing the latest store.    *)
(***************************************************************************)
EXTENDS Integers, Sequences, FiniteSets, TLC

(* ---------------------------------------------------------------- *)
(* Program constants                                                *)
(* ---------------------------------------------------------------- *)
NUM_FLUSH_BYTES == 50000
SAMPLES_PER_BYTE == 2
WRITE_SLICE_SIZE == 50

\* the table read as two's complement instead of sign-magnitude
mappingTwosComplement == <<1, 3, 5, 7, -7, -5, -3, -1>>

\* static const char mapping[8]
mapping == <<1, 3, 5, 7, -1, -3, -5, -7>>

(* ---------------------------------------------------------------- *)
(* Bounds of the model                                              *)
(* ---------------------------------------------------------------- *)
\* readCallback invocations per session
MaxCalls == 2
\* longest raw block whose bytes are enumerated freely
MaxLen == 1
\* a session may start with NUM_FLUSH_BYTES - k bytes already flushed, k <= WarmupSlack
WarmupSlack == 1

(* ---------------------------------------------------------------- *)
(* Inputs                                                           *)
(* ---------------------------------------------------------------- *)
\* 0xE2 has the FIFO error flag raised (bit 0 clear); 0x15 and 0xE3 do not.
ErrBytes == {226}
OkBytes == <<21, 227>>
ByteVals == ErrBytes \cup {OkBytes[i] : i \in 1..Len(OkBytes)}

\* the shortest block whose samples do not fit one write slice
BigLen == (WRITE_SLICE_SIZE \div SAMPLES_PER_BYTE) + 1

SeqsUpTo(S, n) == UNION {[1..k -> S] : k \in 0..n}

\* a long block: a repeating pattern of clean bytes, with an error byte at
\* position e when e > 0
BigBlock(e) == [i \in 1..BigLen |-> IF i = e THEN 226 ELSE OkBytes[(i % Len(OkBytes)) + 1]]

Blocks == SeqsUpTo(ByteVals, MaxLen) \cup {BigBlock(0), BigBlock(BigLen \div 2)}

\* bytes already received when the modelled part of the session starts:
\* a block delivered during the flush changes total_num_bytes_received only
StartOffsets == {0} \cup {NUM_FLUSH_BYTES - k : k \in 0..WarmupSlack}

(* ---------------------------------------------------------------- *)
(* Pure helpers                                                     *)
(* ---------------------------------------------------------------- *)
\* the error flag taken as active high
FifoErrorActiveHigh(byte) == (byte % 2) = 1

\* #define FPGA_FIFO_ERROR_CHECK(byte) (!(byte & 0x01))
FPGA_FIFO_ERROR_CHECK(byte) == (byte % 2) = 0

\* conv_buf[ci*2+0] = mapping[(buffer[ci] >> 5) & 0x07]
Sample0(byte) == mapping[((byte \div 32) % 8) + 1]

\* conv_buf[ci*2+1] = mapping[(buffer[ci] >> 2) & 0x07]
Sample1(byte) == mapping[((byte \div 4) % 8) + 1]

\* a conversion loop that leaves at the first byte with the error flag raised
ConvertUntilError(buffer) ==
  LET bad == {ci \in 1..Len(buffer) : (buffer[ci] % 2) = 0}
      stop == IF bad = {} THEN Len(buffer)
              ELSE (CHOOSE ci \in bad : \A cj \in bad : ci <= cj) - 1
  IN  [j \in 1..(stop * SAMPLES_PER_BYTE) |->
         IF j % 2 = 1 THEN Sample0(buffer[(j + 1) \div 2])
                      ELSE Sample1(buffer[j \div 2])]

\* the conversion loop: conv_buf has SAMPLES_PER_BYTE entries per input byte
Convert(buffer) ==
  [j \in 1..(Len(buffer) * SAMPLES_PER_BYTE) |->
     IF j % 2 = 1 THEN Sample0(buffer[(j + 1) \div 2])
                  ELSE Sample1(buffer[j \div 2])]

\* how many bytes of the block the conversion loop finds the error flag raised on
FifoErrorCount(buffer) ==
  Cardinality({ci \in 1..Len(buffer) : FPGA_FIFO_ERROR_CHECK(buffer[ci])})

\* whether the conversion loop meets a byte with the error flag raised
HasFifoError(buffer) == \E ci \in 1..Len(buffer) : FPGA_FIFO_ERROR_CHECK(buffer[ci])

Min(a, b) == IF a < b THEN a ELSE b

IsPrefix(s, t) == Len(s) <= Len(t) /\ SubSeq(t, 1, Len(s)) = s

(* ---------------------------------------------------------------- *)
(* State                                                            *)
(* ---------------------------------------------------------------- *)
VARIABLES
  exitRequested,             \* static int exitRequested
  outputFile,                \* static FILE *outputFile: TRUE when non-NULL
  total_bytes_saved,         \* static uint64_t total_bytes_saved
  total_num_bytes_received,  \* static uint64_t in readCallback
  n_err,                     \* static uint32_t n_err
  pipe,                      \* bytes held by sample_pipe, oldest first
  producer_open,             \* pipe_writer has not been freed
  sink,                      \* bytes fwrite() has put into the output file
  file_closed,               \* fclose(outputFile) has run
  main_pc,                   \* where main() is
  cb_pc,                     \* where the current readCallback invocation is
  cb_buffer,                 \* buffer/length of the current (or last) invocation
  cb_progress,               \* progress != NULL in the current (or last) invocation
  cb_ret,                    \* value returned by the last invocation, -1 before any
  calls,                     \* invocations started
  live_bufs,                 \* conv_buf allocations not yet released
  last_report,               \* dropouts figure of the last progress line, -1 if none
  w_pc,                      \* where file_writer() is
  w_buf,                     \* buf[0..bytes_read) of file_writer
  pushed,                    \* history: every byte ever given to pipe_push
  pushed_at_exit,            \* history: Len(pushed) when exitRequested was first set, -1 before
  err,                       \* int err of main: 0 until ftdi_readstream has returned
  fifo_errors,               \* history: times the conversion loop found the error flag raised
  write_failed               \* history: an fwrite of file_writer has failed

vars == <<exitRequested, outputFile, total_bytes_saved, total_num_bytes_received,
          n_err, pipe, producer_open, sink, file_closed, main_pc, cb_pc, cb_buffer,
          cb_progress, cb_ret, calls, live_bufs, last_report, w_pc, w_buf, pushed,
          pushed_at_exit, err, fifo_errors, write_failed>>

cbVars == <<cb_pc, cb_buffer, cb_progress, cb_ret, calls, live_bufs, last_report>>
counterVars == <<total_bytes_saved, total_num_bytes_received, n_err, fifo_errors>>
writerVars == <<w_pc, w_buf, sink, write_failed>>
mainVars == <<main_pc, producer_open, file_closed, outputFile, err>>

\* the process has not left main() through exit()
Alive == main_pc \notin {"ended", "aborted"}

\* the history kept when a step stores 1 into exitRequested
MarkExit == IF exitRequested THEN pushed_at_exit ELSE Len(pushed)

(* ---------------------------------------------------------------- *)
(* Initial state: main() has reached the ftdi_readstream() call      *)
(* ---------------------------------------------------------------- *)
Init ==
  /\ exitRequested = FALSE
  /\ outputFile \in BOOLEAN
  /\ total_bytes_saved = 0
  /\ total_num_bytes_received \in StartOffsets
  /\ n_err = 0
  /\ pipe = <<>>
  /\ producer_open = outputFile
  /\ sink = <<>>
  /\ file_closed = FALSE
  /\ main_pc = "reading"
  /\ cb_pc = "idle"
  /\ cb_buffer = <<>>
  /\ cb_progress = FALSE
  /\ cb_ret = -1
  /\ calls = 0
  /\ live_bufs = 0
  /\ last_report = -1
  /\ w_pc = IF outputFile THEN "loop" ELSE "none"
  /\ w_buf = <<>>
  /\ pushed = <<>>
  /\ pushed_at_exit = -1
  /\ err = 0
  /\ fifo_errors = 0
  /\ write_failed = FALSE

(* ---------------------------------------------------------------- *)
(* SIGINT                                                           *)
(* ---------------------------------------------------------------- *)
sigintHandler ==
  /\ Alive
  /\ exitRequested' = TRUE
  /\ pushed_at_exit' = MarkExit
  /\ UNCHANGED <<cbVars, counterVars, writerVars, mainVars, pipe, pushed>>

(* ---------------------------------------------------------------- *)
(* The pipe library (pipe/pipe.h), unconstrained size                *)
(* ---------------------------------------------------------------- *)
\* pipe_push(p, elems, count): appends the elements, in order, never refuses
PipePush(elems) == pipe \o elems

\* pipe_pop(c, target, count): waits while the pipe is empty and a producer
\* handle is still open; then takes up to count elements from the front
PipePopReady == pipe # <<>> \/ ~producer_open
PipePopCount(count) == Min(count, Len(pipe))
PipePopTaken(n) == SubSeq(pipe, 1, n)
PipePopLeft(n) == SubSeq(pipe, n + 1, Len(pipe))

(* ---------------------------------------------------------------- *)
(* readCallback, in three steps                                     *)
(* ---------------------------------------------------------------- *)
\* the conversion entered without the if (outputFile) test
DecodingWithoutFileTest(buffer) ==
  Len(buffer) > 0 /\ total_num_bytes_received >= NUM_FLUSH_BYTES

\* the flush test written with > instead of >=
DecodingStrict(buffer) ==
  Len(buffer) > 0 /\ total_num_bytes_received > NUM_FLUSH_BYTES /\ outputFile

\* if (length) if (total_num_bytes_received >= NUM_FLUSH_BYTES) if (outputFile):
\* the block is converted and pushed
Decoding(buffer) ==
  Len(buffer) > 0 /\ total_num_bytes_received >= NUM_FLUSH_BYTES /\ outputFile

\* entry, malloc of conv_buf, and the conversion loop (which may set exitRequested)
CallbackConvert(buffer, progress) ==
  /\ main_pc = "reading"
  /\ cb_pc = "idle"
  /\ cb_ret # 1
  /\ calls < MaxCalls
  /\ cb_buffer' = buffer
  /\ cb_progress' = progress
  /\ calls' = calls + 1
  /\ live_bufs' = live_bufs + 1
  /\ cb_pc' = "push"
  /\ LET fault == Decoding(buffer) /\ HasFifoError(buffer)
     IN  /\ exitRequested' = (exitRequested \/ fault)
         /\ pushed_at_exit' = IF fault THEN MarkExit ELSE pushed_at_exit
  /\ fifo_errors' = IF Decoding(buffer) THEN fifo_errors + FifoErrorCount(buffer)
                                        ELSE fifo_errors
  /\ UNCHANGED <<cb_ret, last_report, total_bytes_saved, total_num_bytes_received, n_err,
                 writerVars, mainVars, pipe, pushed>>

\* a flush test made per byte: the part of a block past the threshold is pushed
CallbackPushPerByte ==
  /\ cb_pc = "push"
  /\ LET skip == IF total_num_bytes_received >= NUM_FLUSH_BYTES THEN 0
                 ELSE NUM_FLUSH_BYTES - total_num_bytes_received
         part == SubSeq(cb_buffer, skip + 1, Len(cb_buffer))
     IN  IF outputFile /\ Len(part) > 0
           THEN /\ pipe' = PipePush(Convert(part))
                /\ pushed' = pushed \o Convert(part)
                /\ total_bytes_saved' = total_bytes_saved + Len(part)
           ELSE UNCHANGED <<pipe, pushed, total_bytes_saved>>
  /\ total_num_bytes_received' = total_num_bytes_received + Len(cb_buffer)
  /\ last_report' = IF cb_progress THEN n_err ELSE last_report
  /\ cb_pc' = "ret"
  /\ UNCHANGED <<exitRequested, pushed_at_exit, n_err, fifo_errors, cb_buffer, cb_progress,
                 cb_ret, calls, live_bufs, writerVars, mainVars>>

\* total_bytes_saved advanced next to total_num_bytes_received, for every block
CallbackPushCountsAll ==
  /\ cb_pc = "push"
  /\ IF Decoding(cb_buffer)
       THEN /\ pipe' = PipePush(Convert(cb_buffer))
            /\ pushed' = pushed \o Convert(cb_buffer)
       ELSE UNCHANGED <<pipe, pushed>>
  /\ total_bytes_saved' = total_bytes_saved + Len(cb_buffer)
  /\ total_num_bytes_received' = total_num_bytes_received + Len(cb_buffer)
  /\ last_report' = IF cb_progress THEN n_err ELSE last_report
  /\ cb_pc' = "ret"
  /\ UNCHANGED <<exitRequested, pushed_at_exit, n_err, fifo_errors, cb_buffer, cb_progress,
                 cb_ret, calls, live_bufs, writerVars, mainVars>>

\* pipe_push given length instead of length*2
CallbackPushHalf ==
  /\ cb_pc = "push"
  /\ IF Decoding(cb_buffer)
       THEN /\ pipe' = PipePush(SubSeq(Convert(cb_buffer), 1, Len(cb_buffer)))
            /\ pushed' = pushed \o SubSeq(Convert(cb_buffer), 1, Len(cb_buffer))
            /\ total_bytes_saved' = total_bytes_saved + Len(cb_buffer)
       ELSE UNCHANGED <<pipe, pushed, total_bytes_saved>>
  /\ total_num_bytes_received' = total_num_bytes_received + Len(cb_buffer)
  /\ last_report' = IF cb_progress THEN n_err ELSE last_report
  /\ cb_pc' = "ret"
  /\ UNCHANGED <<exitRequested, pushed_at_exit, n_err, fifo_errors, cb_buffer, cb_progress,
                 cb_ret, calls, live_bufs, writerVars, mainVars>>

\* pipe_push, the two counters and the progress line
CallbackPush ==
  /\ cb_pc = "push"
  /\ IF Decoding(cb_buffer)
       THEN /\ pipe' = PipePush(Convert(cb_buffer))
            /\ pushed' = pushed \o Convert(cb_buffer)
            /\ total_bytes_saved' = total_bytes_saved + Len(cb_buffer)
       ELSE UNCHANGED <<pipe, pushed, total_bytes_saved>>
  /\ total_num_bytes_received' = total_num_bytes_received + Len(cb_buffer)
  /\ last_report' = IF cb_progress THEN n_err ELSE last_report
  /\ cb_pc' = "ret"
  /\ UNCHANGED <<exitRequested, pushed_at_exit, n_err, fifo_errors, cb_buffer, cb_progress,
                 cb_ret, calls, live_bufs, writerVars, mainVars>>

\* return 0 whatever exitRequested holds
CallbackReturnZero ==
  /\ cb_pc = "ret"
  /\ cb_ret' = 0
  /\ cb_pc' = "idle"
  /\ UNCHANGED <<exitRequested, pushed_at_exit, counterVars, cb_buffer, cb_progress,
                 calls, live_bufs, last_report, writerVars, mainVars, pipe, pushed>>

\* return exitRequested ? 1 : 0
CallbackReturn ==
  /\ cb_pc = "ret"
  /\ cb_ret' = IF exitRequested THEN 1 ELSE 0
  /\ cb_pc' = "idle"
  /\ UNCHANGED <<exitRequested, pushed_at_exit, counterVars, cb_buffer, cb_progress,
                 calls, live_bufs, last_report, writerVars, mainVars, pipe, pushed>>

(* ---------------------------------------------------------------- *)
(* file_writer                                                      *)
(* ---------------------------------------------------------------- *)
\* while (!(exitRequested))
WriterCheck ==
  /\ Alive
  /\ w_pc = "loop"
  /\ w_pc' = IF exitRequested THEN "done" ELSE "pop"
  /\ UNCHANGED <<exitRequested, pushed_at_exit, cbVars, counterVars, mainVars, pipe,
                 pushed, w_buf, sink, write_failed>>

\* bytes_read = pipe_pop(reader, buf, WRITE_SLICE_SIZE)
WriterPop ==
  /\ Alive
  /\ w_pc = "pop"
  /\ PipePopReady
  /\ LET bytes_read == PipePopCount(WRITE_SLICE_SIZE)
     IN  /\ w_buf' = PipePopTaken(bytes_read)
         /\ pipe' = PipePopLeft(bytes_read)
         /\ w_pc' = IF bytes_read > 0 THEN "write" ELSE "loop"
  /\ UNCHANGED <<exitRequested, pushed_at_exit, cbVars, counterVars, mainVars, pushed, sink,
                 write_failed>>

\* fwrite of the whole of buf, WRITE_SLICE_SIZE bytes, whatever bytes_read is;
\* 0 stands for a byte of buf that pipe_pop did not fill
WriterWriteWholeBuf ==
  /\ Alive
  /\ w_pc = "write"
  /\ sink' = sink \o w_buf \o [i \in 1..(WRITE_SLICE_SIZE - Len(w_buf)) |-> 0]
  /\ w_pc' = "loop"
  /\ UNCHANGED <<exitRequested, pushed_at_exit, cbVars, counterVars, mainVars, pipe,
                 pushed, w_buf, write_failed>>

\* fwrite(buf, bytes_read, 1, outputFile) == 1
WriterWriteOk ==
  /\ Alive
  /\ w_pc = "write"
  /\ sink' = sink \o w_buf
  /\ w_pc' = "loop"
  /\ UNCHANGED <<exitRequested, pushed_at_exit, cbVars, counterVars, mainVars, pipe,
                 pushed, w_buf, write_failed>>

\* a failed fwrite that is reported but does not store into exitRequested
WriterWriteFailNoFlag ==
  /\ Alive
  /\ w_pc = "write"
  /\ \E k \in {0, Len(w_buf) - 1} : sink' = sink \o SubSeq(w_buf, 1, k)
  /\ write_failed' = TRUE
  /\ w_pc' = "loop"
  /\ UNCHANGED <<exitRequested, pushed_at_exit, cbVars, counterVars, mainVars, pipe,
                 pushed, w_buf>>

\* fwrite(...) != 1: the stream took fewer than bytes_read bytes (none, or all
\* but the last); exitRequested = 1
WriterWriteFail ==
  /\ Alive
  /\ w_pc = "write"
  /\ \E k \in {0, Len(w_buf) - 1} : sink' = sink \o SubSeq(w_buf, 1, k)
  /\ exitRequested' = TRUE
  /\ pushed_at_exit' = MarkExit
  /\ write_failed' = TRUE
  /\ w_pc' = "loop"
  /\ UNCHANGED <<cbVars, counterVars, mainVars, pipe, pushed, w_buf>>

(* ---------------------------------------------------------------- *)
(* main, from the ftdi_readstream() call on                          *)
(* ---------------------------------------------------------------- *)
\* ftdi_readstream ends because the callback returned non-zero: err >= 0
ReadstreamStopped ==
  /\ main_pc = "reading"
  /\ cb_pc = "idle"
  /\ cb_ret = 1
  /\ err' = 1
  /\ main_pc' = "join"
  /\ UNCHANGED <<exitRequested, pushed_at_exit, cbVars, counterVars, writerVars, pipe,
                 pushed, producer_open, file_closed, outputFile>>

\* ftdi_readstream fails: err < 0; if (err < 0 && !exitRequested) exit(1)
ReadstreamFailed ==
  /\ main_pc = "reading"
  /\ cb_pc = "idle"
  /\ cb_ret # 1
  /\ err' = -1
  /\ main_pc' = IF exitRequested THEN "join" ELSE "aborted"
  /\ UNCHANGED <<exitRequested, pushed_at_exit, cbVars, counterVars, writerVars, pipe,
                 pushed, producer_open, file_closed, outputFile>>

\* the handles freed without pthread_join before them
MainJoinNoWait ==
  /\ main_pc = "join"
  /\ producer_open' = FALSE
  /\ main_pc' = "close"
  /\ UNCHANGED <<exitRequested, pushed_at_exit, cbVars, counterVars, writerVars, pipe,
                 pushed, file_closed, outputFile, err>>

\* if (outputFile) { pthread_join; pipe_producer_free; pipe_consumer_free; }
MainJoin ==
  /\ main_pc = "join"
  /\ outputFile => w_pc = "done"
  /\ producer_open' = FALSE
  /\ main_pc' = "close"
  /\ UNCHANGED <<exitRequested, pushed_at_exit, cbVars, counterVars, writerVars, pipe,
                 pushed, file_closed, outputFile, err>>

\* teardown that also clears exitRequested, as the start of main does
MainCloseClearsFlag ==
  /\ main_pc = "close"
  /\ file_closed' = (file_closed \/ outputFile)
  /\ outputFile' = FALSE
  /\ main_pc' = "ended"
  /\ exitRequested' = FALSE
  /\ UNCHANGED <<pushed_at_exit, cbVars, counterVars, writerVars, pipe,
                 pushed, producer_open, err>>

\* if (outputFile) { fclose(outputFile); outputFile = NULL; } "Capture ended."
MainClose ==
  /\ main_pc = "close"
  /\ file_closed' = (file_closed \/ outputFile)
  /\ outputFile' = FALSE
  /\ main_pc' = "ended"
  /\ UNCHANGED <<exitRequested, pushed_at_exit, cbVars, counterVars, writerVars, pipe,
                 pushed, producer_open, err>>

(* ---------------------------------------------------------------- *)
(* Specification                                                    *)
(* ---------------------------------------------------------------- *)
Callback == \E buffer \in Blocks, progress \in BOOLEAN : CallbackConvert(buffer, progress)

Next ==
  \/ sigintHandler
  \/ Callback
  \/ CallbackPush
  \/ CallbackReturn
  \/ WriterCheck
  \/ WriterPop
  \/ WriterWriteOk
  \/ WriterWriteFail
  \/ ReadstreamStopped
  \/ ReadstreamFailed
  \/ MainJoin
  \/ MainClose

Spec == Init /\ [][Next]_vars

(* ---------------------------------------------------------------- *)
(* The decoder alone: one single-byte block, any byte value, past    *)
(* the flush, with an output file                                    *)
(* ---------------------------------------------------------------- *)
AllBytes == 0..255

DecodeInit == Init /\ outputFile /\ total_num_bytes_received = NUM_FLUSH_BYTES

DecodeCallback == calls = 0 /\ \E byte \in AllBytes : CallbackConvert(<<byte>>, FALSE)

DecodeNext ==
  \/ DecodeCallback
  \/ CallbackPush
  \/ CallbackReturn

DecodeSpec == DecodeInit /\ [][DecodeNext]_vars

(* ---------------------------------------------------------------- *)
(* Steps of readCallback, as seen from outside                      *)
(* ---------------------------------------------------------------- *)
ConvertStep == cb_pc = "idle" /\ cb_pc' = "push"
PushStep == cb_pc = "push" /\ cb_pc' = "ret"
ReturnStep == cb_pc = "ret" /\ cb_pc' = "idle"

\* bytes received before the block of the current (or last) invocation, once
\* the invocation has counted its block
ReceivedBefore == total_num_bytes_received - Len(cb_buffer)

\* the steps of the program itself: everything but the arrival of SIGINT
ProgramStep ==
  \/ Callback
  \/ CallbackPush
  \/ CallbackReturn
  \/ WriterCheck
  \/ WriterPop
  \/ WriterWriteOk
  \/ WriterWriteFail
  \/ ReadstreamStopped
  \/ ReadstreamFailed
  \/ MainJoin
  \/ MainClose

(* ---------------------------------------------------------------- *)
(* C1                                                               *)
(* ---------------------------------------------------------------- *)
\* C1: no loss on shutdown. When the writer thread has terminated, every byte
\* that was pushed into the pipe before exitRequested was first set has been
\* written to the output file.
NoLossOnShutdown ==
  (w_pc = "done" /\ pushed_at_exit >= 0) => Len(sink) >= pushed_at_exit

Ordering == IsPrefix(sink, pushed)

\* two blocks, one of them longer than a slice, pushed and written in full
OrderingWitness ==
  /\ Len(sink) > WRITE_SLICE_SIZE + SAMPLES_PER_BYTE
  /\ total_bytes_saved > BigLen
  /\ sink = pushed

(* ---------------------------------------------------------------- *)
(* C4                                                               *)
(* ---------------------------------------------------------------- *)
\* C4: readCallback returns 1 (stop) when exitRequested is set at the time it
\* returns and 0 (continue) otherwise; an invocation that converted a block
\* holding a byte with the error flag raised returns 1.
ReturnsStopIffRequested ==
  [][ReturnStep =>
        /\ cb_ret' = 1 <=> exitRequested
        /\ cb_ret' \in {0, 1}
        /\ (/\ outputFile
            /\ ReceivedBefore >= NUM_FLUSH_BYTES
            /\ \E i \in 1..Len(cb_buffer) : cb_buffer[i] % 2 = 0) => cb_ret' = 1]_vars

\* an invocation that found the error flag raised has returned stop
ReturnsStopWitness ==
  /\ cb_pc = "idle"
  /\ cb_ret = 1
  /\ total_bytes_saved > 0
  /\ \E i \in 1..Len(cb_buffer) : cb_buffer[i] % 2 = 0

(* ---------------------------------------------------------------- *)
(* C5                                                               *)
(* ---------------------------------------------------------------- *)
\* C5: monotonic shutdown flag. exitRequested is false when the session
\* starts, and no step of any thread takes it from true back to false.
MonotonicFlag ==
  /\ exitRequested = FALSE
  /\ [][exitRequested => exitRequested']_vars

\* the flag is still set when teardown has finished
MonotonicFlagWitness == exitRequested /\ main_pc = "ended" /\ file_closed

(* ---------------------------------------------------------------- *)
(* C6                                                               *)
(* ---------------------------------------------------------------- *)
\* the part of the current block from observed byte NUM_FLUSH_BYTES + 1 on
PastThreshold ==
  LET first == IF total_num_bytes_received >= NUM_FLUSH_BYTES
                 THEN 1
                 ELSE NUM_FLUSH_BYTES - total_num_bytes_received + 1
  IN  SubSeq(cb_buffer, first, Len(cb_buffer))

\* C6 as claimed: with an output file, the first NUM_FLUSH_BYTES observed
\* bytes contribute nothing to the pipe and every later byte contributes its
\* two samples, also when the threshold falls inside a block; the byte
\* counter advances by the block length.
WarmupPerByte ==
  [][(PushStep /\ outputFile) =>
        /\ pushed' = pushed \o Convert(PastThreshold)
        /\ total_num_bytes_received' = total_num_bytes_received + Len(cb_buffer)]_vars

\* C6 as amended: with an output file, a block contributes all of its samples
\* when NUM_FLUSH_BYTES or more bytes were observed before it and nothing
\* otherwise (so the first NUM_FLUSH_BYTES bytes contribute nothing, and
\* neither does the rest of the block in which the threshold is crossed);
\* the byte counter advances by the block length in both cases.
WarmupPerBlock ==
  [][(PushStep /\ outputFile) =>
        /\ pushed' = pushed \o (IF total_num_bytes_received >= NUM_FLUSH_BYTES
                                  THEN Convert(cb_buffer) ELSE <<>>)
        /\ total_num_bytes_received' = total_num_bytes_received + Len(cb_buffer)]_vars

\* a block that straddles the threshold has been counted and has pushed
\* nothing, and the next block, which starts past it, has pushed its samples
WarmupWitness ==
  /\ outputFile
  /\ cb_pc = "ret"
  /\ ReceivedBefore > NUM_FLUSH_BYTES
  /\ Len(cb_buffer) > 0
  /\ Len(pushed) = SAMPLES_PER_BYTE * Len(cb_buffer)

(* ---------------------------------------------------------------- *)
(* C7                                                               *)
(* ---------------------------------------------------------------- *)
\* C7 as claimed: in every state, a delivered block sets exitRequested when
\* one of its bytes has bit 0 clear, and a block whose bytes all have bit 0
\* set leaves exitRequested as it was.
ErrorAlwaysDetected ==
  [][ConvertStep =>
        exitRequested' =
          (exitRequested \/ \E i \in 1..Len(cb_buffer') : cb_buffer'[i] % 2 = 0)]_vars

\* C7 as amended: a delivered block sets exitRequested exactly when it is
\* converted (an output file is open and NUM_FLUSH_BYTES or more bytes were
\* received before it) and one of its bytes has bit 0 clear; a block that is
\* suppressed, or delivered without an output file, never sets it.
ErrorDetectedWhenConverted ==
  [][ConvertStep =>
        exitRequested' =
          (exitRequested \/
             (/\ outputFile
              /\ total_num_bytes_received >= NUM_FLUSH_BYTES
              /\ \E i \in 1..Len(cb_buffer') : cb_buffer'[i] % 2 = 0))]_vars

\* a converted block with an error byte has set the flag
ErrorDetectedWitness ==
  /\ cb_pc = "push"
  /\ outputFile
  /\ total_num_bytes_received >= NUM_FLUSH_BYTES
  /\ \E i \in 1..Len(cb_buffer) : cb_buffer[i] % 2 = 0
  /\ exitRequested
  /\ pushed_at_exit = Len(pushed)

(* ---------------------------------------------------------------- *)
(* C8                                                               *)
(* ---------------------------------------------------------------- *)
\* bit n of a byte
Bit(byte, n) == (byte \div (2 ^ n)) % 2

\* the 3-bit field of a byte whose top bit is bit hi
Field(byte, hi) == 4 * Bit(byte, hi) + 2 * Bit(byte, hi - 1) + Bit(byte, hi - 2)

\* the table of the specification
SignMagTable == <<1, 3, 5, 7, -1, -3, -5, -7>>

\* C8: mapping correctness. The two samples pushed for a byte b of a converted
\* block are table[(b >> 5) & 7] and table[(b >> 2) & 7], in this order, and
\* do not depend on bits 1 and 0 of b; 0xE0 and 0xE2 both give -7, 1.
MappingCorrect ==
  (cb_pc \in {"ret", "idle"} /\ calls > 0) =>
     /\ Len(cb_buffer) = 1
     /\ pushed = <<SignMagTable[Field(cb_buffer[1], 7) + 1],
                   SignMagTable[Field(cb_buffer[1], 4) + 1]>>
     /\ pipe = pushed
     /\ pushed = Convert(<<cb_buffer[1] - (cb_buffer[1] % 4)>>)
     /\ cb_buffer[1] \in {224, 226} => pushed = <<-7, 1>>

\* the byte 0xE2 has been pushed as -7, 1
MappingWitness == cb_pc = "ret" /\ cb_buffer = <<226>> /\ pipe = <<-7, 1>>

(* ---------------------------------------------------------------- *)
(* C9                                                               *)
(* ---------------------------------------------------------------- *)
\* C9: length invariant. A converted block of length L hands exactly 2*L bytes
\* to pipe_push, the pair at 2i-1, 2i coming from input byte i; an invocation
\* with a block of length 0 pushes nothing, changes no counter and does not
\* set exitRequested.
LengthInvariant ==
  [][/\ (PushStep /\ outputFile /\ total_num_bytes_received >= NUM_FLUSH_BYTES) =>
          /\ Len(pushed') = Len(pushed) + 2 * Len(cb_buffer)
          /\ SubSeq(pushed', 1, Len(pushed)) = pushed
          /\ \A i \in 1..Len(cb_buffer) :
               /\ pushed'[Len(pushed) + 2 * i - 1] = Sample0(cb_buffer[i])
               /\ pushed'[Len(pushed) + 2 * i] = Sample1(cb_buffer[i])
     /\ ((ConvertStep \/ PushStep \/ ReturnStep) /\ Len(cb_buffer') = 0) =>
          UNCHANGED <<pipe, pushed, total_bytes_saved, total_num_bytes_received,
                      n_err, exitRequested>>]_vars

\* a block longer than a slice has been pushed behind an earlier block
LengthWitness ==
  /\ cb_pc = "ret"
  /\ Len(cb_buffer) = BigLen
  /\ Len(pushed) > SAMPLES_PER_BYTE * BigLen
  /\ total_bytes_saved = Len(cb_buffer) + 1

(* ---------------------------------------------------------------- *)
(* C10                                                              *)
(* ---------------------------------------------------------------- *)
\* C10: an error byte does not truncate its block. When a converted block of
\* length L holds a byte with the error flag raised, the samples of the bytes
\* before it, of the byte itself and of the bytes after it are all pushed by
\* that invocation, 2*L in all, and exitRequested is set once they are.
NoTruncationOnError ==
  [][(/\ PushStep
      /\ outputFile
      /\ total_num_bytes_received >= NUM_FLUSH_BYTES
      /\ \E i \in 1..Len(cb_buffer) : cb_buffer[i] % 2 = 0) =>
        /\ pushed' = pushed \o
             [j \in 1..(2 * Len(cb_buffer)) |->
                SignMagTable[Field(cb_buffer[(j + 1) \div 2], IF j % 2 = 1 THEN 7 ELSE 4) + 1]]
        /\ total_bytes_saved' = total_bytes_saved + Len(cb_buffer)
        /\ exitRequested']_vars

\* a long block with an error byte in its middle has been pushed whole
NoTruncationWitness ==
  /\ cb_pc = "ret"
  /\ cb_buffer = BigBlock(BigLen \div 2)
  /\ Len(pipe) >= SAMPLES_PER_BYTE * BigLen
  /\ exitRequested

(* ---------------------------------------------------------------- *)
(* C11                                                              *)
(* ---------------------------------------------------------------- *)
\* C11: sink fault handling. Once an fwrite of a popped slice has failed,
\* exitRequested is set and the writer is at its loop test or has left the
\* loop; it writes nothing more (the failed slice is not retried) and pops
\* nothing more (the pipe only grows).
SinkFaultEndsWriter ==
  /\ [](write_failed => (exitRequested /\ w_pc \in {"loop", "done"}))
  /\ [][write_failed =>
          /\ write_failed'
          /\ sink' = sink
          /\ w_buf' = w_buf
          /\ IsPrefix(pipe, pipe')]_vars

\* the writer has left its loop after a failed write, with samples still in
\* the pipe and part of the failed slice missing from the file
SinkFaultWitness ==
  /\ write_failed
  /\ w_pc = "done"
  /\ pipe # <<>>
  /\ Len(sink) < Len(pushed) - Len(pipe)

(* ---------------------------------------------------------------- *)
(* C12                                                              *)
(* ---------------------------------------------------------------- *)
\* C12: the output file is closed only after the writer thread has ended.
\* When main has passed the join, and so whenever the file has been closed,
\* a writer thread that was started has left its loop: it cannot pop or
\* write any more.
ClosedAfterWriterDone ==
  ((file_closed \/ main_pc \in {"close", "ended"}) /\ w_pc # "none") => w_pc = "done"

\* the file has been closed in a session that wrote samples
ClosedWitness == file_closed /\ w_pc = "done" /\ sink # <<>> /\ main_pc = "ended"

(* ---------------------------------------------------------------- *)
(* C13                                                              *)
(* ---------------------------------------------------------------- *)
\* C13: statistics-only mode. Without an output file there is no pipe and no
\* writer thread; nothing is ever pushed or written and total_bytes_saved
\* stays 0, while every block advances total_num_bytes_received by its
\* length and readCallback returns 1 once exitRequested is set.
StatisticsOnly ==
  /\ []((~outputFile /\ main_pc = "reading") => (w_pc = "none" /\ ~producer_open))
  /\ [](w_pc = "none" =>
          /\ pipe = <<>>
          /\ pushed = <<>>
          /\ sink = <<>>
          /\ total_bytes_saved = 0
          /\ ~file_closed)
  /\ [][(w_pc = "none" /\ PushStep) =>
          total_num_bytes_received' = total_num_bytes_received + Len(cb_buffer)]_vars
  /\ [][(w_pc = "none" /\ ReturnStep /\ exitRequested) => cb_ret' = 1]_vars

\* without an output file, blocks past the flush threshold have been counted
\* and the callback has returned stop
StatisticsOnlyWitness ==
  /\ w_pc = "none"
  /\ cb_pc = "idle"
  /\ cb_ret = 1
  /\ calls = 2
  /\ total_num_bytes_received > NUM_FLUSH_BYTES + BigLen
  /\ Len(cb_buffer) > 0

(* ---------------------------------------------------------------- *)
(* C14                                                              *)
(* ---------------------------------------------------------------- *)
\* the branch taken at if (err < 0 && !exitRequested): abort without join or
\* close when the flag is clear, the teardown path when it is set
SourceFaultBranch ==
  err < 0 =>
    IF main_pc = "aborted"
      THEN ~exitRequested /\ ~file_closed /\ w_pc # "done" /\ producer_open = (w_pc # "none")
      ELSE exitRequested /\ main_pc \in {"join", "close", "ended"}

WriterChecksFirst == [][(exitRequested /\ w_pc # "pop") => w_pc' # "pop"]_vars

\* C15: cancellation is checked before the loop body on both threads. Once
\* exitRequested is set the writer starts no new pop/write iteration, and a
\* readCallback invocation that begins with exitRequested set converts and
\* pushes no block.
CancellationBeforeBody ==
  /\ WriterChecksFirst
  /\ [][(ConvertStep /\ exitRequested) =>
          ~(/\ Len(cb_buffer') > 0
            /\ total_num_bytes_received >= NUM_FLUSH_BYTES
            /\ outputFile)]_vars

(* ---------------------------------------------------------------- *)
(* C16                                                              *)
(* ---------------------------------------------------------------- *)
\* the last n elements of a sequence
LastN(seq, n) == SubSeq(seq, Len(seq) - n + 1, Len(seq))

\* C16 as claimed: a block is suppressed whole exactly when fewer than
\* NUM_FLUSH_BYTES bytes were observed before it and converted whole exactly
\* when NUM_FLUSH_BYTES or more were; no block is converted in part.
WarmupBlockPolicy ==
  (cb_pc = "ret" /\ Len(cb_buffer) > 0) =>
    IF ReceivedBefore >= NUM_FLUSH_BYTES
      THEN /\ Len(pushed) >= SAMPLES_PER_BYTE * Len(cb_buffer)
           /\ LastN(pushed, SAMPLES_PER_BYTE * Len(cb_buffer)) = Convert(cb_buffer)
           /\ Len(pushed) = SAMPLES_PER_BYTE * total_bytes_saved
      ELSE pushed = <<>> /\ total_bytes_saved = 0 /\ fifo_errors = 0

\* C16 as amended: with an output file, a block is suppressed whole exactly
\* when fewer than NUM_FLUSH_BYTES bytes were observed before it and converted
\* whole exactly when NUM_FLUSH_BYTES or more were; no block is converted in
\* part. Without an output file no block is converted.
WarmupBlockPolicyWithFile ==
  (cb_pc = "ret" /\ Len(cb_buffer) > 0) =>
    IF ReceivedBefore >= NUM_FLUSH_BYTES /\ outputFile
      THEN /\ Len(pushed) >= SAMPLES_PER_BYTE * Len(cb_buffer)
           /\ LastN(pushed, SAMPLES_PER_BYTE * Len(cb_buffer)) = Convert(cb_buffer)
           /\ Len(pushed) = SAMPLES_PER_BYTE * total_bytes_saved
      ELSE pushed = <<>> /\ total_bytes_saved = 0 /\ fifo_errors = 0

\* after a suppressed block that ended exactly at the threshold, a long block
\* that starts at the threshold has been converted whole
WarmupBlockWitness ==
  /\ cb_pc = "ret"
  /\ outputFile
  /\ calls = 2
  /\ ReceivedBefore = NUM_FLUSH_BYTES
  /\ Len(cb_buffer) = BigLen
  /\ pushed = Convert(cb_buffer)

(* ---------------------------------------------------------------- *)
(* C17                                                              *)
(* ---------------------------------------------------------------- *)
\* C17: total_bytes_saved accounting. Whenever no readCallback invocation is
\* in progress, the bytes ever pushed number 2 * total_bytes_saved; the
\* counter never decreases, changes only in a step that pushes a block, by
\* that block's length, and no step of the writer changes either counter.
PersistedAccounting ==
  /\ [](cb_pc = "idle" => Len(pushed) = 2 * total_bytes_saved)
  /\ [][/\ total_bytes_saved' >= total_bytes_saved
        /\ total_bytes_saved' # total_bytes_saved =>
             /\ PushStep
             /\ total_bytes_saved' = total_bytes_saved + Len(cb_buffer)
             /\ Len(pushed') = Len(pushed) + 2 * Len(cb_buffer)
             /\ outputFile
             /\ total_num_bytes_received >= NUM_FLUSH_BYTES
        /\ (w_pc' # w_pc \/ sink' # sink \/ w_buf' # w_buf) =>
             UNCHANGED <<total_bytes_saved, total_num_bytes_received>>]_vars

\* a suppressed block and a pushed long block, the writer having written part
WarmupAccountingWitness ==
  /\ cb_pc = "idle"
  /\ calls = 2
  /\ total_bytes_saved = BigLen
  /\ total_num_bytes_received > NUM_FLUSH_BYTES + total_bytes_saved - 1
  /\ Len(sink) = WRITE_SLICE_SIZE

(* ---------------------------------------------------------------- *)
(* C18                                                              *)
(* ---------------------------------------------------------------- *)
\* C18: progress reports carry the cumulative error count. The dropouts
\* figure of a progress line equals the number of times the conversion loop
\* has found the error flag raised so far.
ReportCarriesErrorCount ==
  (cb_pc = "ret" /\ cb_progress) => last_report = fifo_errors

(* ---------------------------------------------------------------- *)
(* C19                                                              *)
(* ---------------------------------------------------------------- *)
\* C19: no allocation is left unaccounted for. When a readCallback invocation
\* has returned, no conv_buf it allocated is still outstanding.
BuffersAccounted == cb_pc = "idle" => live_bufs = 0

====
